---------------------------- MODULE Spec2Model ----------------------------
(***************************************************************************)
(* The expenses edge function (src/unnamed/part_000, lines 164-797): the   *)
(* request router `serve`, the validator, the six operations over the      *)
(* expenses / employees / transactions tables and the transaction          *)
(* side-effect writer.                                                     *)
(*                                                                         *)
(* Every `await` on the store or on the identity provider is one step of   *)
(* a request; the code between two awaits runs with the step that ends it. *)
(* A store call may fail: its outcome is drawn with \E.                    *)
(*                                                                         *)
(* JavaScript values: an object is a function whose DOMAIN is the set of    *)
(* keys that are present; a database NULL is the string Null; a string     *)
(* that the code inspects character by character (the employee id, the     *)
(* request path) is a sequence.                                            *)
(***************************************************************************)
EXTENDS Integers, Sequences, FiniteSets, TLC

VARIABLES
    expenses,      \* table "expenses": id -> row, DOMAIN = ids of stored rows
    transactions,  \* table "transactions": the rows in insertion order
    nextId,        \* number of ids the store has assigned so far
    ncalls,        \* number of requests / operation calls begun so far
    pc,            \* per request slot: the await the request is parked at
    http,          \* per slot: the HTTP request being served (or NoHttp)
    call,          \* per slot: the operation invoked and its arguments
    loc,           \* per slot: the operation's local variables
    resp,          \* per slot: the Response returned (or NoResponse)
    calls,         \* per slot: the store calls issued so far, in order
    pre            \* per slot: the tables as they were when the call began

vars == <<expenses, transactions, nextId, ncalls, pc, http, call, loc, resp, calls, pre>>

store == <<expenses, transactions, nextId>>

(***************************************************************************)
(* Bounds of the model.                                                    *)
(***************************************************************************)
\* operation calls in one behaviour of Spec
MaxCalls == 2

\* requests in one behaviour of SpecServe
MaxRequests == 2

\* calls in one behaviour of SpecValidate
MaxValidateCalls == 1

\* calls in one behaviour of SpecList
MaxListCalls == 2

\* calls in one behaviour of SpecRace
MaxRaceCalls == 2

Procs == {"r1", "r2"}

\* ids the store hands out, in order (uuid primary keys: never reused)
ExpenseIdName == <<"e1", "e2", "e3", "e4", "e5", "e6">>

Null == "NULL"

(***************************************************************************)
(* Strings the code inspects character by character.                       *)
(***************************************************************************)
HexDigits == {"0", "1", "2", "3", "4", "5", "6", "7", "8", "9",
              "a", "b", "c", "d", "e", "f", "A", "B", "C", "D", "E", "F"}

HyphenAt == {9, 14, 19, 24}

\* the 36-character string cccccccc-cccc-cccc-cccc-cccccccccccc
Uuid(c) == [i \in 1..36 |-> IF i \in HyphenAt THEN "-" ELSE c]

Emp1 == Uuid("1")
Emp2 == Uuid("2")
UserA == Uuid("a")
UpperUuid == Uuid("B")
\* 36 characters, hyphens in place, one character that is no hex digit
BadCharId == [Uuid("3") EXCEPT ![36] = "g"]
\* hex digits only, but too short and without hyphens
BadShortId == <<"1", "2", "3">>
\* 36 hex characters with a hyphen missing at position 14
BadHyphenId == [Uuid("4") EXCEPT ![14] = "4"]
EmptyString == <<>>

\* table "employees": read only (lines 521-524, 574-578, 655-659, 726-730).
\* Emp2 is a well-formed id with no employee row.
employees == {[id |-> Emp1, name |-> "Ann"]}

(***************************************************************************)
(* Errors and responses.                                                   *)
(***************************************************************************)
StoreError == [message |-> "store failure", code |-> "XX000"]
NoRowsError == [message |-> "JSON object requested, multiple (or no) rows returned",
                code |-> "PGRST116"]
NullBodyTypeError == [message |-> "Response with null body status cannot have body"]

\* statuses for which the Fetch Response constructor refuses a body
NullBodyStatuses == {101, 103, 204, 205, 304}

\* the function below with the message of the error dropped
handleErrorUnknown(error) == [error |-> "An unknown error occurred", details |-> error]

\* handleError, lines 219-231
handleError(error) ==
    IF "message" \in DOMAIN error
    THEN [error |-> error.message, details |-> error]
    ELSE [error |-> "An unknown error occurred", details |-> error]

\* createJsonResponse, lines 253-264: new Response(JSON.stringify(data), {status}).
\* JSON.stringify of an object is never null, and the Response constructor
\* throws a TypeError when given a body together with a null-body status.
createJsonResponse(data, status) ==
    IF status \in NullBodyStatuses
    THEN [threw |-> NullBodyTypeError]
    ELSE [status |-> status, body |-> data]

\* the function below answering every error as a server error
errorResponseServerError(error, status) == createJsonResponse(handleError(error), 500)

\* errorResponse, lines 270-273
errorResponse(error, status) == createJsonResponse(handleError(error), status)

\* successResponse, lines 266-268
successResponse(data, status) == createJsonResponse([data |-> data], status)

Threw(r) == "threw" \in DOMAIN r

\* the catch block of an operation (lines 679-682 and its likes):
\* a Response whose construction threw becomes errorResponse(error)
CatchResponse(r) == IF Threw(r) THEN errorResponse(r.threw, 400) ELSE r

methodNotAllowed == errorResponse([message |-> "Method not allowed"], 405)
unauthorized == errorResponse([message |-> "Unauthorized"], 401)
\* notFound, lines 302-304: the message is `${resource} not found`
NotFoundMessage(resource) ==
    IF resource = "Expense" THEN "Expense not found" ELSE "Resource not found"

notFound(resource) == errorResponse([message |-> NotFoundMessage(resource)], 404)

NoResponse == [none |-> TRUE]
NoHttp == [none |-> TRUE]
NoCall == [op |-> "none"]
NoLoc == [none |-> TRUE]

(***************************************************************************)
(* Validator, lines 424-452.                                               *)
(***************************************************************************)
\* JavaScript !x for the value of field f: undefined (key absent), 0 and ""
\* are falsy.  Dates are <<year, month, day>>, the empty string is <<>>.
Falsy(e, f) ==
    \/ f \notin DOMAIN e
    \/ CASE f = "amount" -> e[f] = 0
         [] f \in {"date", "employee_id"} -> e[f] = <<>>
         [] OTHER -> e[f] = ""

\* /^[0-9a-f]{8}-[0-9a-f]{4}-[0-9a-f]{4}-[0-9a-f]{4}-[0-9a-f]{12}$/i, line 446
uuidRegexTest(s) ==
    /\ Len(s) = 36
    /\ \A i \in 1..36 : IF i \in HyphenAt THEN s[i] = "-" ELSE s[i] \in HexDigits

Invalid(message) == [isValid |-> FALSE, message |-> message, status |-> 400]

\* the validator with the category check moved before the amount check
validateExpenseCategoryFirst(expense) ==
    IF Falsy(expense, "date")
    THEN Invalid("Expense date is required")
    ELSE IF Falsy(expense, "category")
    THEN Invalid("Category is required")
    ELSE IF Falsy(expense, "amount") \/ expense.amount <= 0
    THEN Invalid("Amount must be a positive number")
    ELSE IF Falsy(expense, "description")
    THEN Invalid("Description is required")
    ELSE IF Falsy(expense, "employee_id")
    THEN Invalid("Employee ID is required")
    ELSE IF ~uuidRegexTest(expense.employee_id)
    THEN Invalid("Invalid employee ID format")
    ELSE [isValid |-> TRUE]

\* the validator without the test of the shape of the employee id
validateExpenseAnyId(expense) ==
    IF Falsy(expense, "date")
    THEN Invalid("Expense date is required")
    ELSE IF Falsy(expense, "amount") \/ expense.amount <= 0
    THEN Invalid("Amount must be a positive number")
    ELSE IF Falsy(expense, "category")
    THEN Invalid("Category is required")
    ELSE IF Falsy(expense, "description")
    THEN Invalid("Description is required")
    ELSE IF Falsy(expense, "employee_id")
    THEN Invalid("Employee ID is required")
    ELSE [isValid |-> TRUE]

\* the validator with the sign of the amount left unchecked
validateExpenseAnySign(expense) ==
    IF Falsy(expense, "date")
    THEN Invalid("Expense date is required")
    ELSE IF Falsy(expense, "amount")
    THEN Invalid("Amount must be a positive number")
    ELSE IF Falsy(expense, "category")
    THEN Invalid("Category is required")
    ELSE IF Falsy(expense, "description")
    THEN Invalid("Description is required")
    ELSE IF Falsy(expense, "employee_id")
    THEN Invalid("Employee ID is required")
    ELSE IF ~uuidRegexTest(expense.employee_id)
    THEN Invalid("Invalid employee ID format")
    ELSE [isValid |-> TRUE]

validateExpense(expense) ==
    IF Falsy(expense, "date")
    THEN Invalid("Expense date is required")
    ELSE IF Falsy(expense, "amount") \/ expense.amount <= 0
    THEN Invalid("Amount must be a positive number")
    ELSE IF Falsy(expense, "category")
    THEN Invalid("Category is required")
    ELSE IF Falsy(expense, "description")
    THEN Invalid("Description is required")
    ELSE IF Falsy(expense, "employee_id")
    THEN Invalid("Employee ID is required")
    ELSE IF ~uuidRegexTest(expense.employee_id)
    THEN Invalid("Invalid employee ID format")
    ELSE [isValid |-> TRUE]

(***************************************************************************)
(* Inputs.  A payload is built field by field: each field is absent or     *)
(* carries one of the listed values.                                       *)
(***************************************************************************)
Field(f, values) == {[k \in {f} |-> v] : v \in values}
Optional(f, values) == {<<>>} \cup Field(f, values)

Date1 == <<2024, 1, 1>>
Date2 == <<2024, 2, 15>>

\* every combination of absent, falsy, malformed and valid fields
AllPayloads ==
    {d @@ a @@ c @@ t @@ e @@ s :
        d \in Optional("date", {Date1}),
        a \in Optional("amount", {0, -5, 100}),
        c \in Optional("category", {"rent"}),
        t \in Optional("description", {"Office rent"}),
        e \in Optional("employee_id", {EmptyString, BadShortId, BadCharId, BadHyphenId,
                                       UpperUuid, Emp1}),
        s \in Optional("payment_status", {"completed"})}

\* payloads that carry every required field
FullPayloads ==
    {[date |-> Date1, category |-> "rent", description |-> "Office rent"] @@ a @@ e @@ s @@ m :
        a \in Field("amount", {100, 250}),
        e \in Field("employee_id", {Emp1, Emp2}),
        s \in Optional("payment_status", {"pending", "completed", "failed"}),
        m \in Optional("payment_method", {"card"})}

\* the complete payloads sent over HTTP: two dates, two employees
PostedPayloads ==
    {[amount |-> 100, category |-> "rent", description |-> "Office rent"] @@ d @@ e @@ s :
        d \in Field("date", {Date1, Date2}),
        e \in Field("employee_id", {Emp1, Emp2}),
        s \in Optional("payment_status", {"completed"})}

\* payloads that carry a subset of the mutable fields, each with a valid value
PartialPayloads ==
    {s @@ a : s \in Optional("payment_status", {"pending", "completed", "failed"}),
             a \in Optional("amount", {250})}

\* complete payloads with one field taken away or given a value no check accepts
InvalidPayloads ==
    LET valid == [date |-> Date1, amount |-> 100, category |-> "rent",
                  description |-> "Office rent", employee_id |-> Emp1]
        Without(f) == [k \in DOMAIN valid \ {f} |-> valid[k]]
    IN {[valid EXCEPT !.amount = 0], [valid EXCEPT !.amount = -5],
        Without("category"), Without("employee_id")}

\* user.id of the authenticated user
UserIds == {UserA}

(***************************************************************************)
(* The store.                                                              *)
(***************************************************************************)
Columns == {"id", "date", "amount", "category", "description", "payment_status",
            "payment_method", "employee_id"}

\* .insert(expense).select("*").single(), lines 646-650: the row the store
\* keeps; a column the payload does not carry is NULL
InsertRow(id, e) ==
    [c \in Columns |-> IF c = "id" THEN id ELSE IF c \in DOMAIN e THEN e[c] ELSE Null]

\* .update(updates).eq("id", id), lines 716-721: only the columns given change
UpdateRow(row, updates) ==
    [c \in Columns |-> IF c \in DOMAIN updates /\ c # "id" THEN updates[c] ELSE row[c]]

\* .from("expenses").select(...).eq("id", id).single()
SingleExpense(id, failed) ==
    IF failed THEN [error |-> StoreError]
    ELSE IF id \notin DOMAIN expenses THEN [error |-> NoRowsError]
    ELSE [data |-> expenses[id]]

\* .from("employees").select("id, name").eq("id", id).single()
SingleEmployee(id, failed) ==
    IF failed THEN [error |-> StoreError]
    ELSE IF \A e \in employees : e.id # id THEN [error |-> NoRowsError]
    ELSE [data |-> CHOOSE e \in employees : e.id = id]

IsError(result) == "error" \in DOMAIN result

\* { ...expense, employee: employee || null }, lines 663-666
WithEmployee(row, employee) ==
    [c \in Columns \cup {"employee"} |-> IF c = "employee" THEN employee ELSE row[c]]

(***************************************************************************)
(* Transaction side-effect writer, lines 597-622.                          *)
(***************************************************************************)
\* the row below with the employee of the expense in place of the given id
transactionDataOwnEmployee(expense, userId) ==
    [amount         |-> expense.amount,
     payment_method |-> IF expense.payment_method \in {Null, ""}
                        THEN "cash" ELSE expense.payment_method,
     payment_status |-> "completed",
     employee_id    |-> expense.employee_id,
     entity_id      |-> expense.id,
     entity_type    |-> "expense",
     description    |-> <<"Expense: ", expense.description, expense.category>>]

transactionData(expense, userId) ==
    [amount         |-> expense.amount,
     payment_method |-> IF expense.payment_method \in {Null, ""}
                        THEN "cash" ELSE expense.payment_method,
     payment_status |-> "completed",
     employee_id    |-> userId,
     entity_id      |-> expense.id,
     entity_type    |-> "expense",
     description    |-> <<"Expense: ", expense.description, expense.category>>]

\* the rows after createExpenseTransaction; a failed insert writes nothing
createExpenseTransaction(expense, userId, failed) ==
    IF failed THEN transactions ELSE Append(transactions, transactionData(expense, userId))

\* the try/catch below with the error thrown on to the operation's catch block
AfterTransactionRethrown(failed, success) ==
    IF failed THEN errorResponse(StoreError, 400) ELSE success

\* try { await createExpenseTransaction(...) } catch { console.error(...) },
\* lines 670-675 and 741-746: the error is logged, the response is the success
AfterTransaction(failed, success) == success

(***************************************************************************)
(* Bookkeeping shared by the steps.                                        *)
(***************************************************************************)
Idle(p) == pc[p] \in {"idle", "done"}

\* a new call in slot p: the tables are remembered, the call log is emptied
Begin(p, limit) ==
    /\ Idle(p)
    /\ ncalls < limit
    /\ ncalls' = ncalls + 1
    /\ pre' = [pre EXCEPT ![p] = [expenses |-> expenses, ntx |-> Len(transactions)]]
    /\ calls' = [calls EXCEPT ![p] = <<>>]

\* the operation returns r
Return(p, r) ==
    /\ resp' = [resp EXCEPT ![p] = r]
    /\ pc' = [pc EXCEPT ![p] = "done"]

\* the operation parks at the await named next
Await(p, next) ==
    /\ resp' = [resp EXCEPT ![p] = NoResponse]
    /\ pc' = [pc EXCEPT ![p] = next]

\* the store call is logged with its outcome: ok is FALSE when it returned an error
Issue(p, table, kind, ok) ==
    calls' = [calls EXCEPT ![p] = Append(@, [table |-> table, kind |-> kind, ok |-> ok])]

(***************************************************************************)
(* createExpense, lines 627-683.                                           *)
(***************************************************************************)
\* the default below with the wrong status
DefaultStatusCompleted(expense) ==
    IF Falsy(expense, "payment_status")
    THEN [f \in DOMAIN expense \cup {"payment_status"} |->
            IF f = "payment_status" THEN "completed" ELSE expense[f]]
    ELSE expense

\* if (!expense.payment_status) expense.payment_status = "pending", lines 641-643
DefaultStatus(expense) ==
    IF Falsy(expense, "payment_status")
    THEN [f \in DOMAIN expense \cup {"payment_status"} |->
            IF f = "payment_status" THEN "pending" ELSE expense[f]]
    ELSE expense

\* the test below with a misspelt status
CreatedCompletedMisspelt(expense) == expense.payment_status = "complete"

\* expense.payment_status === "completed", line 669
CreatedCompleted(expense) == expense.payment_status = "completed"

\* from the entry of createExpense to its first await
EnterCreate(p, expense, userId) ==
    LET validation == validateExpense(expense) IN
    /\ call' = [call EXCEPT ![p] = [op |-> "create", expense |-> expense, userId |-> userId]]
    /\ IF ~validation.isValid
       THEN /\ Return(p, errorResponse([message |-> validation.message], validation.status))
            /\ loc' = [loc EXCEPT ![p] = NoLoc]
       ELSE /\ Await(p, "create_insert")
            /\ loc' = [loc EXCEPT ![p] = [expense |-> DefaultStatus(expense)]]

CreateInsert(p) ==
    /\ pc[p] = "create_insert"
    /\ nextId < Len(ExpenseIdName)
    /\ \E failed \in BOOLEAN :
        /\ Issue(p, "expenses", "insert", ~failed)
        /\ IF failed
           THEN /\ Return(p, errorResponse(StoreError, 400))
                /\ UNCHANGED <<store, loc>>
           ELSE LET id == ExpenseIdName[nextId + 1]
                    row == InsertRow(id, loc[p].expense) IN
                /\ nextId' = nextId + 1
                /\ expenses' = (id :> row) @@ expenses
                /\ loc' = [loc EXCEPT ![p] = [expense |-> loc[p].expense, newExpense |-> row]]
                /\ Await(p, "create_employee")
                /\ UNCHANGED transactions
    /\ UNCHANGED <<ncalls, http, call, pre>>

CreateEmployee(p) ==
    /\ pc[p] = "create_employee"
    /\ \E failed \in BOOLEAN :
        /\ Issue(p, "employees", "select",
                 ~IsError(SingleEmployee(loc[p].newExpense.employee_id, failed)))
        /\ LET found == SingleEmployee(loc[p].newExpense.employee_id, failed) IN
           IF IsError(found)
           THEN /\ Return(p, errorResponse(found.error, 400))
                /\ UNCHANGED loc
           ELSE LET expenseWithEmployee == WithEmployee(loc[p].newExpense, found.data) IN
                /\ loc' = [loc EXCEPT ![p] = [expense |-> loc[p].expense,
                                              expenseWithEmployee |-> expenseWithEmployee]]
                /\ IF CreatedCompleted(loc[p].expense)
                   THEN Await(p, "create_transaction")
                   ELSE Return(p, successResponse(expenseWithEmployee, 201))
    /\ UNCHANGED <<store, ncalls, http, call, pre>>

CreateTransaction(p) ==
    /\ pc[p] = "create_transaction"
    /\ \E failed \in BOOLEAN :
        /\ Issue(p, "transactions", "insert", ~failed)
        /\ transactions' = createExpenseTransaction(loc[p].expenseWithEmployee,
                                                    call[p].userId, failed)
        /\ Return(p, AfterTransaction(failed,
                        successResponse(loc[p].expenseWithEmployee, 201)))
    /\ UNCHANGED <<expenses, nextId, ncalls, http, call, loc, pre>>

\* createExpense(expense, userId) called on its own
CallCreate(p, payloads, limit) ==
    /\ Begin(p, limit)
    /\ \E expense \in payloads, userId \in UserIds : EnterCreate(p, expense, userId)
    /\ http' = [http EXCEPT ![p] = NoHttp]
    /\ UNCHANGED store

(***************************************************************************)
(* updateExpense, lines 688-754.                                           *)
(***************************************************************************)
\* from the entry of updateExpense to its first await
EnterUpdate(p, id, updates) ==
    LET validation == validateExpense(updates) IN
    /\ call' = [call EXCEPT ![p] = [op |-> "update", id |-> id, updates |-> updates]]
    /\ loc' = [loc EXCEPT ![p] = NoLoc]
    /\ IF ~validation.isValid
       THEN Return(p, errorResponse([message |-> validation.message], validation.status))
       ELSE Await(p, "update_select")

\* lines 702-713
UpdateSelect(p) ==
    /\ pc[p] = "update_select"
    /\ \E failed \in BOOLEAN :
        /\ Issue(p, "expenses", "select", ~IsError(SingleExpense(call[p].id, failed)))
        /\ LET existing == SingleExpense(call[p].id, failed) IN
           IF IsError(existing)
           THEN /\ Return(p, IF existing.error.code = "PGRST116"
                             THEN notFound("Expense")
                             ELSE errorResponse(existing.error, 400))
                /\ UNCHANGED loc
           ELSE /\ loc' = [loc EXCEPT ![p] = [existingExpense |-> existing.data]]
                /\ Await(p, "update_update")
    /\ UNCHANGED <<store, ncalls, http, call, pre>>

\* lines 716-723
UpdateUpdate(p) ==
    /\ pc[p] = "update_update"
    /\ \E failed \in BOOLEAN :
        /\ Issue(p, "expenses", "update", ~failed /\ call[p].id \in DOMAIN expenses)
        /\ IF failed \/ call[p].id \notin DOMAIN expenses
           THEN /\ Return(p, errorResponse(IF failed THEN StoreError ELSE NoRowsError, 400))
                /\ UNCHANGED <<expenses, loc>>
           ELSE LET row == UpdateRow(expenses[call[p].id], call[p].updates) IN
                /\ expenses' = [expenses EXCEPT ![call[p].id] = row]
                /\ loc' = [loc EXCEPT ![p] = [existingExpense |-> loc[p].existingExpense,
                                              updatedExpense |-> row]]
                /\ Await(p, "update_employee")
    /\ UNCHANGED <<transactions, nextId, ncalls, http, call, pre>>

\* the test below without the look at the stored status
BecomesCompletedAnyStatus(updates, existingExpense) ==
    /\ "payment_status" \in DOMAIN updates
    /\ updates.payment_status = "completed"

\* updates.payment_status === "completed" &&
\* existingExpense.payment_status !== "completed", line 740
BecomesCompleted(updates, existingExpense) ==
    /\ "payment_status" \in DOMAIN updates
    /\ updates.payment_status = "completed"
    /\ existingExpense.payment_status # "completed"

\* lines 726-749
UpdateEmployee(p) ==
    /\ pc[p] = "update_employee"
    /\ \E failed \in BOOLEAN :
        /\ Issue(p, "employees", "select",
                 ~IsError(SingleEmployee(loc[p].updatedExpense.employee_id, failed)))
        /\ LET found == SingleEmployee(loc[p].updatedExpense.employee_id, failed) IN
           IF IsError(found)
           THEN /\ Return(p, errorResponse(found.error, 400))
                /\ UNCHANGED loc
           ELSE LET expenseWithEmployee == WithEmployee(loc[p].updatedExpense, found.data) IN
                /\ loc' = [loc EXCEPT ![p] = [existingExpense |-> loc[p].existingExpense,
                                              expenseWithEmployee |-> expenseWithEmployee]]
                /\ IF BecomesCompleted(call[p].updates, loc[p].existingExpense)
                   THEN Await(p, "update_transaction")
                   ELSE Return(p, successResponse(expenseWithEmployee, 200))
    /\ UNCHANGED <<store, ncalls, http, call, pre>>

\* lines 741-749
UpdateTransaction(p) ==
    /\ pc[p] = "update_transaction"
    /\ \E failed \in BOOLEAN :
        /\ Issue(p, "transactions", "insert", ~failed)
        /\ transactions' = createExpenseTransaction(loc[p].expenseWithEmployee,
                                loc[p].existingExpense.employee_id, failed)
        /\ Return(p, AfterTransaction(failed,
                        successResponse(loc[p].expenseWithEmployee, 200)))
    /\ UNCHANGED <<expenses, nextId, ncalls, http, call, loc, pre>>

\* ids a caller may name: the ids handed out so far and one never handed out
KnownIds == {ExpenseIdName[i] : i \in 1..nextId} \cup {"does-not-exist-id"}

\* updateExpense(id, updates) called on its own
CallUpdate(p, payloads, limit) ==
    /\ Begin(p, limit)
    /\ \E id \in KnownIds, updates \in payloads : EnterUpdate(p, id, updates)
    /\ http' = [http EXCEPT ![p] = NoHttp]
    /\ UNCHANGED store

(***************************************************************************)
(* deleteExpense, lines 759-797.                                           *)
(***************************************************************************)
EnterDelete(p, id) ==
    /\ call' = [call EXCEPT ![p] = [op |-> "delete", id |-> id]]
    /\ loc' = [loc EXCEPT ![p] = NoLoc]
    /\ Await(p, "delete_select")

\* lines 764-782
DeleteSelect(p) ==
    /\ pc[p] = "delete_select"
    /\ \E failed \in BOOLEAN :
        /\ Issue(p, "expenses", "select", ~IsError(SingleExpense(call[p].id, failed)))
        /\ LET existing == SingleExpense(call[p].id, failed) IN
           IF IsError(existing)
           THEN /\ Return(p, IF existing.error.code = "PGRST116"
                             THEN notFound("Expense")
                             ELSE errorResponse(existing.error, 400))
                /\ UNCHANGED loc
           ELSE IF existing.data.payment_status = "completed"
           THEN /\ Return(p, errorResponse(
                           [message |-> "Cannot delete an expense with completed payment"], 400))
                /\ UNCHANGED loc
           ELSE /\ loc' = [loc EXCEPT ![p] = [existingExpense |->
                               [id |-> existing.data.id,
                                payment_status |-> existing.data.payment_status]]]
                /\ Await(p, "delete_delete")
    /\ UNCHANGED <<store, ncalls, http, call, pre>>

\* lines 785-792; successResponse(null, 204) is built inside the try block
DeleteDelete(p) ==
    /\ pc[p] = "delete_delete"
    /\ \E failed \in BOOLEAN :
        /\ Issue(p, "expenses", "delete", ~failed)
        /\ IF failed
           THEN /\ Return(p, errorResponse(StoreError, 400))
                /\ UNCHANGED expenses
           ELSE /\ expenses' = [i \in DOMAIN expenses \ {call[p].id} |-> expenses[i]]
                /\ Return(p, CatchResponse(successResponse(Null, 204)))
    /\ UNCHANGED <<transactions, nextId, ncalls, http, call, loc, pre>>

\* deleteExpense(id) called on its own
CallDelete(p, limit) ==
    /\ Begin(p, limit)
    /\ \E id \in KnownIds : EnterDelete(p, id)
    /\ http' = [http EXCEPT ![p] = NoHttp]
    /\ UNCHANGED store

(***************************************************************************)
(* getExpenseById, lines 556-592.                                          *)
(***************************************************************************)
EnterGetById(p, id) ==
    /\ call' = [call EXCEPT ![p] = [op |-> "getById", id |-> id]]
    /\ loc' = [loc EXCEPT ![p] = NoLoc]
    /\ Await(p, "get_select")

\* lines 560-571
GetSelect(p) ==
    /\ pc[p] = "get_select"
    /\ \E failed \in BOOLEAN :
        /\ Issue(p, "expenses", "select", ~IsError(SingleExpense(call[p].id, failed)))
        /\ LET found == SingleExpense(call[p].id, failed) IN
           IF IsError(found)
           THEN /\ Return(p, IF found.error.code = "PGRST116"
                             THEN notFound("Expense")
                             ELSE errorResponse(found.error, 400))
                /\ UNCHANGED loc
           ELSE /\ loc' = [loc EXCEPT ![p] = [expense |-> found.data]]
                /\ Await(p, "get_employee")
    /\ UNCHANGED <<store, ncalls, http, call, pre>>

\* the response below with a failed lookup tolerated as in getExpenses
GetResponseTolerant(expense, found) ==
    IF IsError(found)
    THEN successResponse(WithEmployee(expense, <<>>), 200)
    ELSE successResponse(WithEmployee(expense, found.data), 200)

\* lines 580-590: the error of the employee lookup is thrown to the catch block
GetResponse(expense, found) ==
    IF IsError(found)
    THEN errorResponse(found.error, 400)
    ELSE successResponse(WithEmployee(expense, found.data), 200)

\* lines 574-587
GetEmployee(p) ==
    /\ pc[p] = "get_employee"
    /\ \E failed \in BOOLEAN :
        /\ Issue(p, "employees", "select",
                 ~IsError(SingleEmployee(loc[p].expense.employee_id, failed)))
        /\ LET found == SingleEmployee(loc[p].expense.employee_id, failed) IN
           Return(p, GetResponse(loc[p].expense, found))
    /\ UNCHANGED <<store, ncalls, http, call, loc, pre>>

\* getExpenseById(id) called on its own
CallGetById(p, limit) ==
    /\ Begin(p, limit)
    /\ \E id \in KnownIds : EnterGetById(p, id)
    /\ http' = [http EXCEPT ![p] = NoHttp]
    /\ UNCHANGED store

(***************************************************************************)
(* getExpenseCategories, lines 457-476.                                    *)
(***************************************************************************)
Categories == <<"utilities", "rent", "salaries", "maintenance", "supplies", "taxes",
                "insurance", "other">>

getExpenseCategories == CatchResponse(successResponse(Categories, 200))

(***************************************************************************)
(* getExpenses, lines 481-551.                                             *)
(***************************************************************************)
\* dates <<year, month, day>> in calendar order
DateLeq(a, b) ==
    \/ a[1] < b[1]
    \/ a[1] = b[1] /\ a[2] < b[2]
    \/ a[1] = b[1] /\ a[2] = b[2] /\ a[3] <= b[3]

\* lines 492-506: each filter that is given narrows the query
Matches(row, filters) ==
    /\ "category" \in DOMAIN filters => row.category = filters.category
    /\ "startDate" \in DOMAIN filters => DateLeq(filters.startDate, row.date)
    /\ "endDate" \in DOMAIN filters => DateLeq(row.date, filters.endDate)
    /\ "paymentStatus" \in DOMAIN filters => row.payment_status = filters.paymentStatus

\* the order below reversed: oldest first
OrderedByDateAsc(rows) ==
    {s \in [1..Cardinality(rows) -> rows] :
        /\ \A i, j \in DOMAIN s : i # j => s[i] # s[j]
        /\ \A i, j \in DOMAIN s : i < j => DateLeq(s[i].date, s[j].date)}

\* .order("date", { ascending: false }), line 489: the rows in every order the
\* store may return them, rows of one date in any order
OrderedByDateDesc(rows) ==
    {s \in [1..Cardinality(rows) -> rows] :
        /\ \A i, j \in DOMAIN s : i # j => s[i] # s[j]
        /\ \A i, j \in DOMAIN s : i < j => DateLeq(s[j].date, s[i].date)}

Nothing == <<>>

\* employeeMap.get(expense.employee_id) || null, lines 533-541
Decorate(row, found) ==
    WithEmployee(row, IF row.employee_id = <<>> \/ \A e \in found : e.id # row.employee_id
                      THEN Nothing
                      ELSE CHOOSE e \in found : e.id = row.employee_id)

EnterList(p, filters) ==
    /\ call' = [call EXCEPT ![p] = [op |-> "list", filters |-> filters]]
    /\ loc' = [loc EXCEPT ![p] = NoLoc]
    /\ Await(p, "list_query")

\* lines 509-519
ListQuery(p) ==
    /\ pc[p] = "list_query"
    /\ \E failed \in BOOLEAN :
        /\ Issue(p, "expenses", "select", ~failed)
        /\ IF failed
           THEN /\ Return(p, errorResponse(StoreError, 400))
                /\ UNCHANGED loc
           ELSE \E rows \in OrderedByDateDesc({expenses[i] : i \in
                           {j \in DOMAIN expenses : Matches(expenses[j], call[p].filters)}}) :
                IF Len(rows) = 0
                THEN /\ Return(p, successResponse(<<>>, 200))
                     /\ UNCHANGED loc
                ELSE IF \A i \in DOMAIN rows : rows[i].employee_id = <<>>
                THEN /\ Return(p, successResponse(rows, 200))
                     /\ UNCHANGED loc
                ELSE /\ loc' = [loc EXCEPT ![p] = [expenses |-> rows]]
                     /\ Await(p, "list_employees")
    /\ UNCHANGED <<store, ncalls, http, call, pre>>

\* the response below with the error of the employee query thrown to the catch block
ListResponseFailing(failed, rows, found) ==
    IF failed
    THEN errorResponse(StoreError, 400)
    ELSE successResponse([i \in DOMAIN rows |-> Decorate(rows[i], found)], 200)

\* lines 526-543: the expenses as queried when the employee query failed,
\* each with its employee otherwise
ListResponse(failed, rows, found) ==
    IF failed
    THEN successResponse(rows, 200)
    ELSE successResponse([i \in DOMAIN rows |-> Decorate(rows[i], found)], 200)

\* lines 521-543
ListEmployees(p) ==
    /\ pc[p] = "list_employees"
    /\ \E failed \in BOOLEAN :
        /\ Issue(p, "employees", "select", ~failed)
        /\ LET rows == loc[p].expenses
               found == {e \in employees : \E i \in DOMAIN rows : rows[i].employee_id = e.id} IN
           Return(p, ListResponse(failed, rows, found))
    /\ UNCHANGED <<store, ncalls, http, call, loc, pre>>

(***************************************************************************)
(* The request handler, lines 343-419.                                     *)
(***************************************************************************)
\* A pathname is the sequence of its "/" and of the names between them.
Slash == "/"

FunctionsPrefix == <<Slash, "functions", Slash, "v1", Slash>>

\* names made of letters, digits and hyphens only
AlnumNames == {"functions", "v1", "expenses", "summary", "categories", "e1",
               "does-not-exist-id", "other"}

HasPrefix(s, prefix) ==
    /\ Len(s) >= Len(prefix)
    /\ SubSeq(s, 1, Len(prefix)) = prefix

\* .replace(/^\/functions\/v1\//, ''), line 351
StripPrefix(s) ==
    IF HasPrefix(s, FunctionsPrefix) THEN SubSeq(s, Len(FunctionsPrefix) + 1, Len(s)) ELSE s

\* .split('/'): the pieces between the slashes, each a string without slash
RECURSIVE Split(_)
Split(s) ==
    IF \A i \in DOMAIN s : s[i] # Slash
    THEN <<s>>
    ELSE LET k == CHOOSE i \in DOMAIN s : s[i] = Slash /\ \A j \in 1..(i - 1) : s[j] # Slash
         IN <<SubSeq(s, 1, k - 1)>> \o Split(SubSeq(s, k + 1, Len(s)))

\* pathParts[0], line 352
MainRoute(pathname) == Split(StripPrefix(pathname))[1]

\* pathParts[1] || '', line 353
SubRoute(pathname) ==
    LET pathParts == Split(StripPrefix(pathname)) IN
    IF Len(pathParts) >= 2 THEN pathParts[2] ELSE <<>>

\* subRoute.match(/^\/[a-zA-Z0-9-]+$/), lines 398, 405, 409
MatchesIdPattern(subRoute) ==
    /\ Len(subRoute) >= 2
    /\ subRoute[1] = Slash
    /\ \A i \in 2..Len(subRoute) : subRoute[i] \in AlnumNames

\* subRoute.split('/')[1], lines 399, 406, 410
IdOf(subRoute) == Split(subRoute)[2][1]

\* handleCors of ../_shared/cors.ts (line 166): answers the preflight request
handleCors(request) ==
    IF request.method = "OPTIONS"
    THEN [status |-> 200, body |-> [preflight |-> TRUE]]
    ELSE NoResponse

\* tokens the identity provider knows
ValidTokens == {"valid-token"}

\* the test below without the check of the scheme
HasAuthorization(request) == "authorization" \in DOMAIN request.headers

\* getUserFromRequest up to its await, lines 234-238: is a token sent at all
HasBearer(request) ==
    /\ "authorization" \in DOMAIN request.headers
    /\ request.headers.authorization.scheme = "Bearer "

\* supabase.auth.getUser(token), lines 243-249
getUser(token, providerFailed) ==
    IF providerFailed \/ token \notin ValidTokens THEN Nothing ELSE [id |-> UserA]

\* parseRequestBody, lines 275-287
ParseFailure(cause) ==
    IF cause = "content-type"
    THEN [message |-> "Failed to parse request body: Content-Type must be application/json"]
    ELSE [message |-> "Failed to parse request body: Unexpected token in JSON"]

\* the function below without the test of the content type
parseRequestBodyAnyType(headers, body) ==
    IF "malformed" \in DOMAIN body
    THEN [threw |-> ParseFailure("json")]
    ELSE [data |-> body]

parseRequestBody(headers, body) ==
    IF \/ "content-type" \notin DOMAIN headers
       \/ \A i \in DOMAIN headers["content-type"] :
            headers["content-type"][i] # "application/json"
    THEN [threw |-> ParseFailure("content-type")]
    ELSE IF "malformed" \in DOMAIN body
    THEN [threw |-> ParseFailure("json")]
    ELSE [data |-> body]

Methods == {"GET", "POST", "PUT", "DELETE", "OPTIONS"}

Pathnames ==
    {FunctionsPrefix \o rest : rest \in
        {<<"expenses">>, <<"expenses", Slash>>, <<"expenses", Slash, "summary">>,
         <<"expenses", Slash, "categories">>, <<"expenses", Slash, "e1">>,
         <<"expenses", Slash, "does-not-exist-id">>, <<"expenses", Slash, "e1.json">>,
         <<"other">>, <<"other", Slash, "e1">>}}
    \cup {<<Slash, "expenses", Slash, "e1">>}

Authorizations ==
    {<<>>} \cup Field("authorization",
        {[scheme |-> "Basic ", token |-> "valid-token"],
         [scheme |-> "Bearer ", token |-> "valid-token"],
         [scheme |-> "Bearer ", token |-> "expired-token"]})

ContentTypes ==
    Optional("content-type", {<<"application/json">>,
                              <<"application/json", "; charset=utf-8">>,
                              <<"text/plain">>})

\* the request line and the Authorization header; the Content-Type header, the
\* body and the query string are drawn where the handler reads them
Requests ==
    {[method |-> m, pathname |-> path, headers |-> a] :
        m \in Methods, path \in Pathnames, a \in Authorizations}

\* what request.json() may find in the body
Bodies == {[malformed |-> TRUE]} \cup PostedPayloads \cup
          {<<>>, [payment_status |-> "completed"]}

\* the query strings of GET /expenses
FilterSets ==
    {c @@ s @@ d : c \in Optional("category", {"rent"}),
                   s \in Optional("paymentStatus", {"completed"}),
                   d \in Optional("startDate", {Date2})}

\* the Response of a request that no operation serves
Answer(p, r) ==
    /\ call' = [call EXCEPT ![p] = NoCall]
    /\ loc' = [loc EXCEPT ![p] = NoLoc]
    /\ Return(p, r)

\* lines 344-381, to the await of the identity provider
Receive(p, limit) ==
    /\ Begin(p, limit)
    /\ \E request \in Requests :
        /\ http' = [http EXCEPT ![p] = request]
        /\ IF handleCors(request) # NoResponse
           THEN Answer(p, handleCors(request))
           ELSE IF MainRoute(request.pathname) # <<"expenses">>
           THEN Answer(p, [status |-> 404, body |-> [error |-> "Not found"]])
           ELSE IF SubRoute(request.pathname) = <<"summary">>
           THEN Answer(p, IF request.method = "GET"
                          THEN [status |-> 200, body |-> [summary |-> <<>>]]
                          ELSE [status |-> 405, body |-> [error |-> "Method not allowed"]])
           ELSE IF ~HasBearer(request)
           THEN Answer(p, unauthorized)
           ELSE /\ call' = [call EXCEPT ![p] = NoCall]
                /\ loc' = [loc EXCEPT ![p] = NoLoc]
                /\ Await(p, "serve_auth")
    /\ UNCHANGED store

\* the request with what the handler has read of it since it arrived
Read(request, user, contentType, body) ==
    [method |-> request.method, pathname |-> request.pathname,
     headers |-> request.headers @@ contentType, user |-> user, body |-> body]

NotRead == [unread |-> TRUE]

\* lines 378-418: the identity provider answers, the request is routed
ServeAuth(p) ==
    LET request == http[p]
        method == request.method
        subRoute == SubRoute(request.pathname)
        root == subRoute = <<>> \/ subRoute = <<Slash>>
        hasBody == \/ method = "POST" /\ root
                   \/ method = "PUT" /\ MatchesIdPattern(subRoute)
    IN
    /\ pc[p] = "serve_auth"
    /\ \E providerFailed \in BOOLEAN :
        LET user == getUser(request.headers.authorization.token, providerFailed) IN
        IF user = Nothing
        THEN /\ http' = [http EXCEPT ![p] = Read(request, user, <<>>, NotRead)]
             /\ Answer(p, unauthorized)
        ELSE \E contentType \in IF hasBody THEN ContentTypes ELSE {<<>>},
                body \in IF hasBody THEN Bodies ELSE {NotRead} :
             LET data == parseRequestBody(contentType, body) IN
             /\ http' = [http EXCEPT ![p] = Read(request, user, contentType, body)]
             /\ IF method = "GET" /\ root
                THEN \E filters \in FilterSets : EnterList(p, filters)
                ELSE IF method = "GET" /\ subRoute = <<Slash, "categories">>
                THEN Answer(p, getExpenseCategories)
                ELSE IF method = "GET" /\ MatchesIdPattern(subRoute)
                THEN EnterGetById(p, IdOf(subRoute))
                ELSE IF method = "POST" /\ root
                THEN IF Threw(data)
                     THEN Answer(p, errorResponse(data.threw, 400))
                     ELSE EnterCreate(p, data.data, user.id)
                ELSE IF method = "PUT" /\ MatchesIdPattern(subRoute)
                THEN IF Threw(data)
                     THEN Answer(p, errorResponse(data.threw, 400))
                     ELSE EnterUpdate(p, IdOf(subRoute), data.data)
                ELSE IF method = "DELETE" /\ MatchesIdPattern(subRoute)
                THEN EnterDelete(p, IdOf(subRoute))
                ELSE Answer(p, methodNotAllowed)
    /\ UNCHANGED <<store, ncalls, calls, pre>>

(***************************************************************************)
(* The operations called one at a time, each with any argument.            *)
(***************************************************************************)
Init ==
    /\ expenses = <<>>
    /\ transactions = <<>>
    /\ nextId = 0
    /\ ncalls = 0
    /\ pc = [p \in Procs |-> "idle"]
    /\ http = [p \in Procs |-> NoHttp]
    /\ call = [p \in Procs |-> NoCall]
    /\ loc = [p \in Procs |-> NoLoc]
    /\ resp = [p \in Procs |-> NoResponse]
    /\ calls = [p \in Procs |-> <<>>]
    /\ pre = [p \in Procs |-> [expenses |-> <<>>, ntx |-> 0]]

\* the payloads of Spec; a payment method is sent with the larger amount only,
\* the statuses "pending" and "failed" with the smaller amount and Emp1 only
OpPayloads ==
    {e \in FullPayloads :
        /\ "payment_method" \in DOMAIN e => e.amount = 250
        /\ ("payment_status" \in DOMAIN e /\ e.payment_status # "completed") =>
                e.amount = 100 /\ e.employee_id = Emp1}
    \cup PartialPayloads \cup InvalidPayloads

Next ==
    \/ CallCreate("r1", OpPayloads, MaxCalls)
    \/ CallUpdate("r1", OpPayloads, MaxCalls)
    \/ CallDelete("r1", MaxCalls)
    \/ CallGetById("r1", MaxCalls)
    \/ CreateInsert("r1")
    \/ CreateEmployee("r1")
    \/ CreateTransaction("r1")
    \/ UpdateSelect("r1")
    \/ UpdateUpdate("r1")
    \/ UpdateEmployee("r1")
    \/ UpdateTransaction("r1")
    \/ DeleteSelect("r1")
    \/ DeleteDelete("r1")
    \/ GetSelect("r1")
    \/ GetEmployee("r1")

Spec == Init /\ [][Next]_vars

(***************************************************************************)
(* HTTP requests served one at a time by the request handler.              *)
(***************************************************************************)
NextServe ==
    \/ Receive("r1", MaxRequests)
    \/ ServeAuth("r1")
    \/ ListQuery("r1")
    \/ ListEmployees("r1")
    \/ CreateInsert("r1")
    \/ CreateEmployee("r1")
    \/ CreateTransaction("r1")

SpecServe == Init /\ [][NextServe]_vars

(***************************************************************************)
(* createExpense and updateExpense called one at a time with every         *)
(* combination of absent, falsy, malformed and valid fields.               *)
(***************************************************************************)
\* the store after one earlier createExpense
SeedExpense ==
    InsertRow(ExpenseIdName[1],
              [date |-> Date1, amount |-> 100, category |-> "rent",
               description |-> "Office rent", employee_id |-> Emp1,
               payment_status |-> "pending"])

InitValidate ==
    /\ expenses = (ExpenseIdName[1] :> SeedExpense)
    /\ transactions = <<>>
    /\ nextId = 1
    /\ ncalls = 0
    /\ pc = [p \in Procs |-> "idle"]
    /\ http = [p \in Procs |-> NoHttp]
    /\ call = [p \in Procs |-> NoCall]
    /\ loc = [p \in Procs |-> NoLoc]
    /\ resp = [p \in Procs |-> NoResponse]
    /\ calls = [p \in Procs |-> <<>>]
    /\ pre = [p \in Procs |-> [expenses |-> <<>>, ntx |-> 0]]

NextValidate ==
    \/ CallCreate("r1", AllPayloads, MaxValidateCalls)
    \/ CallUpdate("r1", AllPayloads, MaxValidateCalls)
    \/ CreateInsert("r1")
    \/ CreateEmployee("r1")
    \/ CreateTransaction("r1")
    \/ UpdateSelect("r1")
    \/ UpdateUpdate("r1")
    \/ UpdateEmployee("r1")
    \/ UpdateTransaction("r1")

SpecValidate == InitValidate /\ [][NextValidate]_vars

(***************************************************************************)
(* getExpenses called on a store that earlier creates have filled, with    *)
(* creates and deletes in between.                                         *)
(***************************************************************************)
\* getExpenses(filters) called on its own
CallList(p, limit) ==
    /\ Begin(p, limit)
    /\ \E filters \in FilterSets : EnterList(p, filters)
    /\ http' = [http EXCEPT ![p] = NoHttp]
    /\ UNCHANGED store

\* the rows three earlier creates have stored: two of one date, and one whose
\* employee id has no employee row
SeedRows ==
    LET posted == [amount |-> 100, category |-> "rent", description |-> "Office rent"] IN
    (ExpenseIdName[1] :> InsertRow(ExpenseIdName[1], DefaultStatus(
        posted @@ [date |-> Date1, employee_id |-> Emp1])))
    @@ (ExpenseIdName[2] :> InsertRow(ExpenseIdName[2], DefaultStatus(
        posted @@ [date |-> Date2, employee_id |-> Emp2, payment_status |-> "completed"])))
    @@ (ExpenseIdName[3] :> InsertRow(ExpenseIdName[3], DefaultStatus(
        posted @@ [date |-> Date2, employee_id |-> Emp1])))

InitList ==
    /\ expenses = SeedRows
    /\ transactions = <<>>
    /\ nextId = 3
    /\ ncalls = 0
    /\ pc = [p \in Procs |-> "idle"]
    /\ http = [p \in Procs |-> NoHttp]
    /\ call = [p \in Procs |-> NoCall]
    /\ loc = [p \in Procs |-> NoLoc]
    /\ resp = [p \in Procs |-> NoResponse]
    /\ calls = [p \in Procs |-> <<>>]
    /\ pre = [p \in Procs |-> [expenses |-> <<>>, ntx |-> 0]]

NextList ==
    \/ CallList("r1", MaxListCalls)
    \/ ListQuery("r1")
    \/ ListEmployees("r1")
    \/ CallCreate("r1", PostedPayloads, MaxListCalls)
    \/ CreateInsert("r1")
    \/ CreateEmployee("r1")
    \/ CreateTransaction("r1")
    \/ CallDelete("r1", MaxListCalls)
    \/ DeleteSelect("r1")
    \/ DeleteDelete("r1")

SpecList == InitList /\ [][NextList]_vars

(***************************************************************************)
(* Two requests served at once: each request is an independent invocation  *)
(* of the handler, and the store calls of the two interleave freely.       *)
(***************************************************************************)
\* complete payloads: one sets payment_status to "completed", one leaves it
RacePayloads ==
    {[date |-> Date1, amount |-> 100, category |-> "rent", description |-> "Office rent",
      employee_id |-> Emp1] @@ s : s \in Optional("payment_status", {"completed"})}

InitRace ==
    /\ expenses = (ExpenseIdName[1] :> SeedExpense)
    /\ transactions = <<>>
    /\ nextId = 1
    /\ ncalls = 0
    /\ pc = [p \in Procs |-> "idle"]
    /\ http = [p \in Procs |-> NoHttp]
    /\ call = [p \in Procs |-> NoCall]
    /\ loc = [p \in Procs |-> NoLoc]
    /\ resp = [p \in Procs |-> NoResponse]
    /\ calls = [p \in Procs |-> <<>>]
    /\ pre = [p \in Procs |-> [expenses |-> <<>>, ntx |-> 0]]

NextRace ==
    \E p \in Procs :
        \/ CallUpdate(p, RacePayloads, MaxRaceCalls)
        \/ UpdateSelect(p)
        \/ UpdateUpdate(p)
        \/ UpdateEmployee(p)
        \/ UpdateTransaction(p)
        \/ CallDelete(p, MaxRaceCalls)
        \/ DeleteSelect(p)
        \/ DeleteDelete(p)

SpecRace == InitRace /\ [][NextRace]_vars

(***************************************************************************)
(* Properties.                                                             *)
(***************************************************************************)
Done(p) == pc[p] = "done"

StatusOf(r) == IF "status" \in DOMAIN r THEN r.status ELSE 0

ErrorOf(r) ==
    IF "body" \in DOMAIN r /\ "error" \in DOMAIN r.body THEN r.body.error ELSE ""

HasData(r) == "body" \in DOMAIN r /\ "data" \in DOMAIN r.body

\* every store call of the request returned without error
AllOk(p) == \A i \in DOMAIN calls[p] : calls[p][i].ok

\* the n-th store call of the request was issued and returned without error
OkAt(p, n) == Len(calls[p]) >= n /\ calls[p][n].ok

\* rows stored since the call began, transactions written since it began
NewIds(p) == DOMAIN expenses \ DOMAIN pre[p].expenses

Written(p) == Len(transactions) - pre[p].ntx

TransactionsOf(id) ==
    {i \in DOMAIN transactions :
        transactions[i].entity_type = "expense" /\ transactions[i].entity_id = id}

\* 8-4-4-4-12 hexadecimal digits
UuidShaped(s) ==
    /\ Len(s) = 36
    /\ {i \in DOMAIN s : s[i] = "-"} = HyphenAt
    /\ \A i \in DOMAIN s \ HyphenAt : s[i] \in HexDigits

\* the six checks in their documented order
CheckMessages ==
    <<"Expense date is required", "Amount must be a positive number",
      "Category is required", "Description is required",
      "Employee ID is required", "Invalid employee ID format">>

Passes(k, e) ==
    CASE k = 1 -> "date" \in DOMAIN e /\ e.date # <<>>
      [] k = 2 -> "amount" \in DOMAIN e /\ e.amount > 0
      [] k = 3 -> "category" \in DOMAIN e /\ e.category # ""
      [] k = 4 -> "description" \in DOMAIN e /\ e.description # ""
      [] k = 5 -> "employee_id" \in DOMAIN e /\ e.employee_id # <<>>
      [] k = 6 -> "employee_id" \in DOMAIN e /\ UuidShaped(e.employee_id)

Failing(e) == {k \in DOMAIN CheckMessages : ~Passes(k, e)}

FirstFailing(e) == CHOOSE k \in Failing(e) : \A j \in Failing(e) : k <= j

Complete(e) == Failing(e) = {}

Payload(p) == IF call[p].op = "create" THEN call[p].expense ELSE call[p].updates

\* C1: create and update answer a payload that fails a check with 400 and the
\* message of the first failing check, in the order date, amount, category,
\* description, employee id present, employee id UUID-shaped; a payload that
\* passes every check goes on to the store.
C1_FirstFailingCheck ==
    \A p \in Procs :
        call[p].op \in {"create", "update"} =>
            IF Failing(Payload(p)) # {}
            THEN /\ Done(p)
                 /\ StatusOf(resp[p]) = 400
                 /\ ErrorOf(resp[p]) = CheckMessages[FirstFailing(Payload(p))]
            ELSE ~Done(p) \/ calls[p] # <<>>

C1_Witness ==
    \E p \in Procs :
        /\ Done(p)
        /\ call[p].op = "update"
        /\ Failing(Payload(p)) = {2, 4, 6}
        /\ ErrorOf(resp[p]) = "Amount must be a positive number"

\* C2 (as claimed, store failures set aside): deleting an existing expense
\* whose stored payment_status is "completed" returns 400 and leaves the row
\* unchanged; with any other status it removes the row and returns 204.
C2_DeleteClaim ==
    \A p \in Procs :
        (Done(p) /\ call[p].op = "delete" /\ call[p].id \in DOMAIN pre[p].expenses
            /\ AllOk(p)) =>
            IF pre[p].expenses[call[p].id].payment_status = "completed"
            THEN /\ StatusOf(resp[p]) = 400
                 /\ call[p].id \in DOMAIN expenses
                 /\ expenses[call[p].id] = pre[p].expenses[call[p].id]
            ELSE /\ call[p].id \notin DOMAIN expenses
                 /\ StatusOf(resp[p]) = 204

CreatesCompleted(p) ==
    /\ Done(p)
    /\ call[p].op = "create"
    /\ Complete(call[p].expense)
    /\ "payment_status" \in DOMAIN call[p].expense
    /\ call[p].expense.payment_status = "completed"

\* C3 (as claimed): a create with a valid payload whose payment_status is
\* "completed" always leaves exactly one Transaction row with entity_type
\* "expense" and entity_id the id of the new expense.
C3_AlwaysOneTransaction ==
    \A p \in Procs :
        CreatesCompleted(p) =>
            \A id \in NewIds(p) : Cardinality(TransactionsOf(id)) = 1

\* C3 (amended): such a create leaves exactly one Transaction row for the new
\* expense when the employee lookup and the transaction insert that follow the
\* expense insert both succeed, and none when either fails.
C3_OneTransactionUnlessFailure ==
    \A p \in Procs :
        CreatesCompleted(p) =>
            \A id \in NewIds(p) :
                IF OkAt(p, 2)
                THEN /\ Len(calls[p]) = 3
                     /\ calls[p][3].table = "transactions"
                     /\ Cardinality(TransactionsOf(id)) = IF calls[p][3].ok THEN 1 ELSE 0
                ELSE Cardinality(TransactionsOf(id)) = 0

C3_Witness ==
    \E p \in Procs :
        /\ CreatesCompleted(p)
        /\ \E id \in NewIds(p) : Cardinality(TransactionsOf(id)) = 1

\* C4 (as claimed): an update that sets payment_status to "completed" writes
\* exactly one Transaction when the stored status was "pending" and none when
\* it was already "completed".
C4_UpdateToCompleted ==
    \A p \in Procs :
        (Done(p) /\ call[p].op = "update" /\ call[p].id \in DOMAIN pre[p].expenses
            /\ "payment_status" \in DOMAIN call[p].updates
            /\ call[p].updates.payment_status = "completed"
            /\ AllOk(p)) =>
            LET before == pre[p].expenses[call[p].id].payment_status IN
            /\ before = "pending" => Written(p) = 1
            /\ before = "completed" => Written(p) = 0

\* the request line and the headers that say who is asking
SendsBearer(h) ==
    /\ "authorization" \in DOMAIN h.headers
    /\ h.headers.authorization.scheme = "Bearer "

Authenticated(h) == SendsBearer(h) /\ "user" \in DOMAIN h /\ h.user # Nothing

\* header missing, not starting with "Bearer ", or rejected by the provider
NoValidToken(h) == ~SendsBearer(h) \/ ("user" \in DOMAIN h /\ h.user = Nothing)

UnderExpenses(h) ==
    /\ h # NoHttp
    /\ MainRoute(h.pathname) = <<"expenses">>
    /\ SubRoute(h.pathname) # <<"summary">>

Untouched(p) ==
    /\ calls[p] = <<>>
    /\ expenses = pre[p].expenses
    /\ Written(p) = 0

\* C5 (as claimed): every request under the "expenses" main route, other than
\* to "summary", that carries no valid bearer token is answered 401 and no
\* table is read or written before that.
C5_UnauthorizedEveryRequest ==
    \A p \in Procs :
        (Done(p) /\ UnderExpenses(http[p]) /\ NoValidToken(http[p])) =>
            StatusOf(resp[p]) = 401 /\ Untouched(p)

\* C5 (amended): the same for every request that is not an OPTIONS preflight;
\* and a request issues a store call only once it is authenticated.
C5_UnauthorizedUnlessPreflight ==
    \A p \in Procs :
        /\ (Done(p) /\ UnderExpenses(http[p]) /\ NoValidToken(http[p])
                /\ http[p].method # "OPTIONS") =>
                StatusOf(resp[p]) = 401 /\ Untouched(p)
        /\ (http[p] # NoHttp /\ calls[p] # <<>>) => Authenticated(http[p])

C5_Witness ==
    \E p \in Procs :
        /\ Done(p)
        /\ UnderExpenses(http[p])
        /\ http[p].method = "POST"
        /\ SendsBearer(http[p])
        /\ http[p].headers.authorization.token = "expired-token"
        /\ StatusOf(resp[p]) = 401

\* the path /functions/v1/expenses/{name}
ItemPath(name) == FunctionsPrefix \o <<"expenses", Slash, name>>

ItemNames == AlnumNames \ {"summary"}

\* C6 (as claimed): an authenticated GET /expenses/{id} for an id that no
\* expense has returns 404 with the message "Expense not found".
C6_GetMissingIs404 ==
    \A p \in Procs :
        (Done(p) /\ http[p] # NoHttp /\ Authenticated(http[p])
            /\ http[p].method = "GET"
            /\ \E name \in ItemNames \ ({"categories"} \cup DOMAIN expenses) :
                    http[p].pathname = ItemPath(name)) =>
            /\ StatusOf(resp[p]) = 404
            /\ ErrorOf(resp[p]) = "Expense not found"

\* C7 (as claimed): an authenticated request with a non-empty sub-route is
\* dispatched by the routing table: GET /categories answers 200 with the eight
\* categories, GET /{id} runs getById, PUT /{id} runs update, DELETE /{id}
\* runs delete; any other pair is answered 405.
C7_RoutingTable ==
    \A p \in Procs :
        (http[p] # NoHttp /\ Authenticated(http[p])) =>
            \A name \in ItemNames \cup {"e1.json"} :
                http[p].pathname = ItemPath(name) =>
                    CASE http[p].method = "GET" /\ name = "categories" ->
                            /\ Done(p)
                            /\ StatusOf(resp[p]) = 200
                            /\ HasData(resp[p])
                            /\ resp[p].body.data = Categories
                      [] http[p].method = "GET" /\ name \in ItemNames \ {"categories"} ->
                            call[p] = [op |-> "getById", id |-> name]
                      [] http[p].method = "PUT" /\ name \in ItemNames ->
                            call[p].op = "update" /\ call[p].id = name
                      [] http[p].method = "DELETE" /\ name \in ItemNames ->
                            call[p] = [op |-> "delete", id |-> name]
                      [] OTHER ->
                            Done(p) /\ StatusOf(resp[p]) = 405

CreatesWithoutStatus(p) ==
    /\ Done(p)
    /\ call[p].op = "create"
    /\ Complete(call[p].expense)
    /\ "payment_status" \notin DOMAIN call[p].expense

\* 201 with the new expense, stored and returned as pending, employee attached
CreatedPending(p) ==
    /\ StatusOf(resp[p]) = 201
    /\ HasData(resp[p])
    /\ NewIds(p) = {resp[p].body.data.id}
    /\ expenses[resp[p].body.data.id].payment_status = "pending"
    /\ resp[p].body.data.payment_status = "pending"
    /\ resp[p].body.data.employee \in employees
    /\ resp[p].body.data.employee.id = call[p].expense.employee_id

\* C8 (as claimed): a create with a valid payload that omits payment_status
\* returns 201, stores and returns the expense as "pending" with its employee
\* attached, and writes no Transaction.
C8_DefaultPendingAlways ==
    \A p \in Procs :
        CreatesWithoutStatus(p) => CreatedPending(p) /\ Written(p) = 0

\* C8 (amended): it does so when the expense insert and the employee lookup
\* succeed; when one of them fails the answer is a 400 error; in every case
\* no Transaction is written and a row that was stored is "pending".
C8_DefaultPendingUnlessFailure ==
    \A p \in Procs :
        CreatesWithoutStatus(p) =>
            /\ IF OkAt(p, 1) /\ OkAt(p, 2)
               THEN CreatedPending(p)
               ELSE StatusOf(resp[p]) = 400 /\ ErrorOf(resp[p]) # ""
            /\ Written(p) = 0
            /\ \A id \in NewIds(p) : expenses[id].payment_status = "pending"

C8_Witness ==
    \E p \in Procs : CreatesWithoutStatus(p) /\ CreatedPending(p)

\* each field the payload carries has a valid value
ValidSubset(u) ==
    /\ "date" \in DOMAIN u => u.date # <<>>
    /\ "amount" \in DOMAIN u => u.amount > 0
    /\ "category" \in DOMAIN u => u.category # ""
    /\ "description" \in DOMAIN u => u.description # ""
    /\ "employee_id" \in DOMAIN u => UuidShaped(u.employee_id)
    /\ "payment_status" \in DOMAIN u =>
            u.payment_status \in {"pending", "completed", "failed", "refunded"}
    /\ "payment_method" \in DOMAIN u =>
            u.payment_method \in {"cash", "card", "bank_transfer", "mobile_payment"}

\* C9 (as claimed): an update of an existing expense with any subset of the
\* mutable fields, each valid, is accepted and applied: the fields it names
\* take the new values and the others keep theirs.
C9_PartialUpdate ==
    \A p \in Procs :
        (Done(p) /\ call[p].op = "update" /\ call[p].id \in DOMAIN pre[p].expenses
            /\ DOMAIN call[p].updates # {}
            /\ ValidSubset(call[p].updates) /\ AllOk(p)) =>
            /\ StatusOf(resp[p]) = 200
            /\ call[p].id \in DOMAIN expenses
            /\ \A c \in Columns :
                    expenses[call[p].id][c] =
                        IF c \in DOMAIN call[p].updates
                        THEN call[p].updates[c]
                        ELSE pre[p].expenses[call[p].id][c]

\* the last store call of the request is a transaction insert that failed
TransactionInsertFailed(p) ==
    /\ calls[p] # <<>>
    /\ calls[p][Len(calls[p])].table = "transactions"
    /\ ~calls[p][Len(calls[p])].ok

\* C10: when the Transaction insert fails during create or update, the caller
\* still receives the success response (201 for create, 200 for update) with
\* the expense, the inserted or updated expense stays stored as returned, and
\* no Transaction is written.
C10_TransactionFailureSwallowed ==
    \A p \in Procs :
        (Done(p) /\ call[p].op \in {"create", "update"} /\ TransactionInsertFailed(p)) =>
            /\ StatusOf(resp[p]) = IF call[p].op = "create" THEN 201 ELSE 200
            /\ HasData(resp[p])
            /\ resp[p].body.data.id \in DOMAIN expenses
            /\ \A c \in Columns :
                    expenses[resp[p].body.data.id][c] = resp[p].body.data[c]
            /\ resp[p].body.data.payment_status = "completed"
            /\ IF call[p].op = "create"
               THEN NewIds(p) = {resp[p].body.data.id}
               ELSE resp[p].body.data.id = call[p].id
            /\ Written(p) = 0

C10_Witness ==
    \E p \in Procs :
        /\ Done(p)
        /\ call[p].op = "update"
        /\ TransactionInsertFailed(p)
        /\ StatusOf(resp[p]) = 200

\* C11: after any sequence of create, update and delete operations every
\* stored expense has amount > 0, a category, an employee id and a
\* payment_status, which is "pending" when the create that stored it omitted it.
C11_StoredExpensesValid ==
    /\ \A id \in DOMAIN expenses :
            /\ expenses[id].amount \in Int
            /\ expenses[id].amount > 0
            /\ expenses[id].category \notin {Null, ""}
            /\ UuidShaped(expenses[id].employee_id)
            /\ expenses[id].payment_status \in {"pending", "completed", "failed", "refunded"}
    /\ \A p \in Procs :
            (Done(p) /\ call[p].op = "create"
                /\ "payment_status" \notin DOMAIN call[p].expense) =>
                \A id \in NewIds(p) : expenses[id].payment_status = "pending"

\* an update that would have made the amount of a stored expense negative was refused
C11_Witness ==
    \E p \in Procs :
        /\ Done(p)
        /\ call[p].op = "update"
        /\ call[p].id \in DOMAIN expenses
        /\ "amount" \in DOMAIN call[p].updates
        /\ call[p].updates.amount < 0
        /\ StatusOf(resp[p]) = 400
        /\ expenses[call[p].id].amount > 0

\* the top-level keys of the two envelopes
EnvelopeShapes == {{"data"}, {"error"}, {"error", "details"}}

\* C12 (as claimed, for the responses the handler builds itself): every
\* response, on every route and outcome, is a JSON envelope {data} or
\* {error, details?} and has no other top-level shape.
C12_EveryResponseAnEnvelope ==
    \A p \in Procs :
        (Done(p) /\ http[p] # NoHttp /\ http[p].method # "OPTIONS") =>
            /\ "body" \in DOMAIN resp[p]
            /\ DOMAIN resp[p].body \in EnvelopeShapes

ListsAll(p) ==
    /\ Done(p)
    /\ call[p].op = "list"
    /\ call[p].filters = <<>>

\* the rows returned are the stored expenses, each once, newest date first
AllExpensesNewestFirst(data) ==
    /\ {data[i].id : i \in DOMAIN data} = DOMAIN expenses
    /\ Len(data) = Cardinality(DOMAIN expenses)
    /\ \A i \in DOMAIN data : \A c \in Columns : data[i][c] = expenses[data[i].id][c]
    /\ \A i, j \in DOMAIN data : i < j => DateLeq(data[j].date, data[i].date)

\* the row carries the {id, name} of its employee, or null when there is none
EmployeeAttached(row) ==
    /\ DOMAIN row = Columns \cup {"employee"}
    /\ IF \E e \in employees : e.id = row.employee_id
       THEN row.employee \in employees /\ row.employee.id = row.employee_id
       ELSE row.employee = Nothing

\* C13 (as claimed): list with no filters returns 200 with every stored
\* expense ordered by date descending, each with an employee field that is the
\* {id, name} of its employee or null.
C13_ListAllDecorated ==
    \A p \in Procs :
        ListsAll(p) =>
            /\ StatusOf(resp[p]) = 200
            /\ HasData(resp[p])
            /\ AllExpensesNewestFirst(resp[p].body.data)
            /\ \A i \in DOMAIN resp[p].body.data : EmployeeAttached(resp[p].body.data[i])

\* C13 (amended): it does so when the expense query and the employee query
\* both succeed; when the expense query fails the answer is a 400 error, and
\* when only the employee query fails the answer is 200 with every stored
\* expense in that order but without the employee field.
C13_ListAllUnlessFailure ==
    \A p \in Procs :
        ListsAll(p) =>
            IF ~OkAt(p, 1)
            THEN StatusOf(resp[p]) = 400 /\ ErrorOf(resp[p]) # ""
            ELSE /\ StatusOf(resp[p]) = 200
                 /\ HasData(resp[p])
                 /\ AllExpensesNewestFirst(resp[p].body.data)
                 /\ DOMAIN expenses # {} => Len(calls[p]) = 2
                 /\ \A i \in DOMAIN resp[p].body.data :
                        IF OkAt(p, 2)
                        THEN EmployeeAttached(resp[p].body.data[i])
                        ELSE DOMAIN resp[p].body.data[i] = Columns

\* four expenses of two dates are listed, one of them without an employee row
C13_Witness ==
    \E p \in Procs :
        /\ ListsAll(p)
        /\ AllOk(p)
        /\ Len(resp[p].body.data) = 4
        /\ resp[p].body.data[1].date # resp[p].body.data[4].date
        /\ \E i \in DOMAIN resp[p].body.data : resp[p].body.data[i].employee = Nothing
        /\ \E i \in DOMAIN resp[p].body.data : resp[p].body.data[i].employee \in employees

\* the expense query returned rows and the employee query that followed failed
EmployeeQueryFailed(p) ==
    /\ Done(p)
    /\ call[p].op = "list"
    /\ Len(calls[p]) = 2
    /\ calls[p][1].ok
    /\ ~calls[p][2].ok

\* the stored expenses the filters of the call select
Selected(p) == {id \in DOMAIN expenses : Matches(expenses[id], call[p].filters)}

\* C20: in list, when the expense query succeeds with a non-empty result and
\* the employee query fails, the response is still 200 and holds exactly the
\* expenses of the query, in the same order, without the employee field.
C20_ListDegrades ==
    \A p \in Procs :
        EmployeeQueryFailed(p) =>
            /\ StatusOf(resp[p]) = 200
            /\ HasData(resp[p])
            /\ resp[p].body.data = loc[p].expenses
            /\ Len(resp[p].body.data) > 0
            /\ {resp[p].body.data[i].id : i \in DOMAIN resp[p].body.data} = Selected(p)
            /\ Len(resp[p].body.data) = Cardinality(Selected(p))
            /\ \A i \in DOMAIN resp[p].body.data :
                    /\ DOMAIN resp[p].body.data[i] = Columns
                    /\ resp[p].body.data[i] = expenses[resp[p].body.data[i].id]
            /\ \A i, j \in DOMAIN resp[p].body.data :
                    i < j => DateLeq(resp[p].body.data[j].date, resp[p].body.data[i].date)

\* a filtered list of two expenses is returned bare after the employee query failed
C20_Witness ==
    \E p \in Procs :
        /\ EmployeeQueryFailed(p)
        /\ "startDate" \in DOMAIN call[p].filters
        /\ StatusOf(resp[p]) = 200
        /\ Len(resp[p].body.data) = 2

\* the Content-Type header is absent or does not contain "application/json"
NoJsonContentType(h) ==
    \/ "content-type" \notin DOMAIN h.headers
    \/ \A i \in DOMAIN h.headers["content-type"] :
            h.headers["content-type"][i] # "application/json"

\* POST /expenses or POST /expenses/ from an authenticated user
PostsToRoot(h) ==
    /\ Authenticated(h)
    /\ h.method = "POST"
    /\ MainRoute(h.pathname) = <<"expenses">>
    /\ SubRoute(h.pathname) = <<>>

\* C14: a POST or PUT request whose Content-Type header is absent or does not
\* contain "application/json" is answered with a 4xx error envelope and causes
\* no insert or update; the POST that reaches createExpense's route is answered
\* 400 with the message of parseRequestBody.
C14_NonJsonRejected ==
    \A p \in Procs :
        (Done(p) /\ http[p] # NoHttp /\ http[p].method \in {"POST", "PUT"}
            /\ NoJsonContentType(http[p])) =>
            /\ StatusOf(resp[p]) \in 400..499
            /\ "body" \in DOMAIN resp[p]
            /\ DOMAIN resp[p].body \in {{"error"}, {"error", "details"}}
            /\ Untouched(p)
            /\ call[p] = NoCall
            /\ PostsToRoot(http[p]) =>
                    /\ StatusOf(resp[p]) = 400
                    /\ ErrorOf(resp[p]) =
                        "Failed to parse request body: Content-Type must be application/json"

\* a complete expense posted as text/plain by an authenticated user is refused
C14_Witness ==
    \E p \in Procs :
        /\ Done(p)
        /\ http[p] # NoHttp
        /\ PostsToRoot(http[p])
        /\ "content-type" \in DOMAIN http[p].headers
        /\ http[p].headers["content-type"] = <<"text/plain">>
        /\ http[p].body \in PostedPayloads
        /\ StatusOf(resp[p]) = 400
        /\ Untouched(p)

\* C15 (as claimed, preflight set aside): every request without a valid bearer
\* token, other than one to the summary sub-route, is answered 401 whatever
\* its method, main route and sub-route.
C15_UnauthorizedBeforeRouting ==
    \A p \in Procs :
        (Done(p) /\ http[p] # NoHttp /\ http[p].method # "OPTIONS"
            /\ SubRoute(http[p].pathname) # <<"summary">>
            /\ NoValidToken(http[p])) =>
            StatusOf(resp[p]) = 401

\* the step appends exactly the row t to the transactions table
Appends(t) == transactions' = Append(transactions, t)

\* the step is taken by a create whose new expense is stored as "completed"
ByCompletedCreate(p, t) ==
    /\ call[p].op = "create"
    /\ pc'[p] # pc[p]
    /\ t.entity_type = "expense"
    /\ t.entity_id \in NewIds(p)
    /\ expenses[t.entity_id].payment_status = "completed"

\* the step is taken by an update that sets "completed" after reading another status
ByCompletingUpdate(p, t) ==
    /\ call[p].op = "update"
    /\ pc'[p] # pc[p]
    /\ t.entity_type = "expense"
    /\ t.entity_id = call[p].id
    /\ "payment_status" \in DOMAIN call[p].updates
    /\ call[p].updates.payment_status = "completed"
    /\ loc[p].existingExpense.payment_status # "completed"

TransactionWrittenOnlyOnCompletion ==
    transactions' # transactions =>
        /\ Len(transactions') = Len(transactions) + 1
        /\ LET t == transactions'[Len(transactions')] IN
           /\ Appends(t)
           /\ \E p \in Procs : ByCompletedCreate(p, t) \/ ByCompletingUpdate(p, t)

\* C16: the transactions table changes only by the append of one row, made
\* (a) by a create whose new expense has payment_status "completed" or (b) by
\* an update whose payload sets payment_status to "completed" while the status
\* it read before the update was not "completed"; every other step (getById,
\* delete, refused payloads, other creates and updates) leaves it unchanged.
C16_TransactionsOnlyOnCompletion == [][TransactionWrittenOnlyOnCompletion]_vars

\* an update of a pending expense to "completed" has written the one transaction
C16_Witness ==
    /\ Len(transactions) = 1
    /\ \E p \in Procs :
        /\ Done(p)
        /\ call[p].op = "update"
        /\ Written(p) = 1
        /\ pre[p].expenses[call[p].id].payment_status = "pending"
        /\ transactions[1].entity_id = call[p].id

\* the request in slot p is a finished update of id from "pending", as the
\* store stood when the request arrived, to "completed", all store calls ok
CompletedFromPending(p, id) ==
    /\ Done(p)
    /\ call[p].op = "update"
    /\ call[p].id = id
    /\ "payment_status" \in DOMAIN call[p].updates
    /\ call[p].updates.payment_status = "completed"
    /\ id \in DOMAIN pre[p].expenses
    /\ pre[p].expenses[id].payment_status = "pending"
    /\ AllOk(p)

\* C17 (as claimed): two update requests that both set payment_status to
\* "completed", served at once against the same pending expense, create
\* exactly one Transaction for it in total.
C17_OneTransactionForTwoUpdates ==
    \A id \in DOMAIN expenses :
        (CompletedFromPending("r1", id) /\ CompletedFromPending("r2", id)) =>
            Cardinality(TransactionsOf(id)) = 1

\* a step removes only expenses whose stored status is not "completed"
RemovesNoCompleted ==
    \A id \in DOMAIN expenses \ DOMAIN expenses' :
        expenses[id].payment_status # "completed"

\* every transaction refers to an expense that is still stored
NoTransactionOfRemoved ==
    \A i \in DOMAIN transactions : transactions[i].entity_id \in DOMAIN expenses

\* C18 (as claimed): under any interleaving of a delete with updates of the
\* same expense, no delete removes a record whose stored payment_status is
\* "completed" at the moment of removal, and no Transaction is left referring
\* to an expense a delete has removed.
C18_DeleteOnlyUncompleted == [][RemovesNoCompleted]_vars /\ []NoTransactionOfRemoved

\* the store calls of the request that returned an error
FailedCalls(p) == {i \in DOMAIN calls[p] : ~calls[p][i].ok}

\* the messages of the errors a store call returns
StoreMessages == {StoreError.message, NoRowsError.message}

\* a 4xx error envelope that carries the message of the store error
StoreErrorEnvelope(r) ==
    /\ StatusOf(r) \in 400..499
    /\ "body" \in DOMAIN r
    /\ DOMAIN r.body = {"error", "details"}
    /\ r.body.error \in StoreMessages
    /\ r.body.details \in {StoreError, NoRowsError}
    /\ r.body.details.message = r.body.error

\* the identity provider was asked and resolved no user
IdentityLookupFailed(h) == SendsBearer(h) /\ "user" \in DOMAIN h /\ h.user = Nothing

GotStored(p) ==
    /\ Done(p)
    /\ call[p].op = "getById"
    /\ call[p].id \in DOMAIN expenses
    /\ OkAt(p, 1)

\* C21: in getById, when the expense exists but the lookup of its employee
\* fails (a store error, or no employee row), the response is a 400 error
\* envelope with the message of the lookup and never a success carrying the
\* expense; when the lookup succeeds the response is 200 with the expense and
\* its employee.
C21_GetByIdLookupNotTolerated ==
    \A p \in Procs :
        GotStored(p) =>
            /\ Len(calls[p]) = 2
            /\ calls[p][2].table = "employees"
            /\ IF calls[p][2].ok
               THEN /\ StatusOf(resp[p]) = 200
                    /\ HasData(resp[p])
                    /\ resp[p].body.data.id = call[p].id
                    /\ resp[p].body.data.employee \in employees
               ELSE /\ StatusOf(resp[p]) = 400
                    /\ ~HasData(resp[p])
                    /\ DOMAIN resp[p].body = {"error", "details"}
                    /\ ErrorOf(resp[p]) \in StoreMessages

\* the expense is stored with the id of an employee that has no row, the
\* employee query itself worked, and getById answers the error of .single()
C21_Witness ==
    \E p \in Procs :
        /\ GotStored(p)
        /\ expenses[call[p].id].employee_id = Emp2
        /\ StatusOf(resp[p]) = 400
        /\ ErrorOf(resp[p]) = NoRowsError.message

\* a finished create or update whose last store call is the employee lookup,
\* which failed after the insert or update before it had succeeded
LookupFailedAfterWrite(p) ==
    /\ Done(p)
    /\ call[p].op \in {"create", "update"}
    /\ Len(calls[p]) >= 2
    /\ calls[p][Len(calls[p])].table = "employees"
    /\ ~calls[p][Len(calls[p])].ok
    /\ calls[p][Len(calls[p]) - 1].kind \in {"insert", "update"}
    /\ calls[p][Len(calls[p]) - 1].ok

\* the value column c of a new row takes from the payload e of its create
Inserted(e, c) ==
    IF c \in DOMAIN e THEN e[c] ELSE IF c = "payment_status" THEN "pending" ELSE Null

\* the write of the request is in the store: the row of the create as posted,
\* the row of the update with the columns it names changed
WritePersisted(p) ==
    IF call[p].op = "create"
    THEN /\ Cardinality(NewIds(p)) = 1
         /\ \A id \in NewIds(p) : \A c \in Columns \ {"id"} :
                expenses[id][c] = Inserted(call[p].expense, c)
    ELSE /\ call[p].id \in DOMAIN expenses
         /\ \A c \in Columns \ {"id"} :
                expenses[call[p].id][c] =
                    IF c \in DOMAIN call[p].updates
                    THEN call[p].updates[c]
                    ELSE pre[p].expenses[call[p].id][c]

\* C22: when the employee lookup that follows a successful expense insert
\* (create) or update fails, the caller receives a 4xx error envelope with the
\* message of the lookup, the insert or update stays in the store, and no
\* Transaction is written, even when the resulting payment_status is
\* "completed".
C22_LookupFailureAfterWrite ==
    \A p \in Procs :
        LookupFailedAfterWrite(p) =>
            /\ StatusOf(resp[p]) \in 400..499
            /\ DOMAIN resp[p].body = {"error", "details"}
            /\ ErrorOf(resp[p]) \in StoreMessages
            /\ WritePersisted(p)
            /\ Written(p) = 0

\* an update made a pending expense "completed", the employee lookup then
\* failed: the row is completed and there is no transaction for it
C22_Witness ==
    \E p \in Procs :
        /\ LookupFailedAfterWrite(p)
        /\ call[p].op = "update"
        /\ pre[p].expenses[call[p].id].payment_status = "pending"
        /\ expenses[call[p].id].payment_status = "completed"
        /\ TransactionsOf(call[p].id) = {}
        /\ StatusOf(resp[p]) = 400

\* the payment method of the row, "cash" when it has none
MethodOrCash(row) == IF row.payment_method = Null THEN "cash" ELSE row.payment_method

\* the transaction t mirrors the expense row as stored after the write
MirrorsExpense(t, row) ==
    /\ t.payment_status = "completed"
    /\ t.entity_type = "expense"
    /\ t.entity_id = row.id
    /\ t.amount = row.amount
    /\ t.payment_method = MethodOrCash(row)

\* the request in slot p takes the step
Steps(p) == pc'[p] # pc[p]

TransactionAsSpecified ==
    Len(transactions') > Len(transactions) =>
        LET t == transactions'[Len(transactions')] IN
        /\ t.entity_id \in DOMAIN expenses
        /\ MirrorsExpense(t, expenses[t.entity_id])
        /\ \E p \in Procs :
            /\ Steps(p)
            /\ call[p].op \in {"create", "update"}
            /\ IF call[p].op = "create"
               THEN /\ t.entity_id \in NewIds(p)
                    /\ t.employee_id = call[p].userId
               ELSE /\ t.entity_id = call[p].id
                    /\ t.employee_id = pre[p].expenses[call[p].id].employee_id

\* C23: every Transaction written has payment_status "completed", entity_type
\* "expense", entity_id the expense id, the amount of the expense after the
\* write, and its payment_method or "cash"; its employee_id is the user's id
\* when written by create, and the employee_id the expense had before the
\* update when written by update.
C23_TransactionFields == [][TransactionAsSpecified]_vars

\* an update gave the expense another employee and a payment method and made
\* it completed: the transaction names the earlier employee and the method
C23_Witness ==
    \E p \in Procs :
        /\ Done(p)
        /\ call[p].op = "update"
        /\ Written(p) = 1
        /\ transactions[Len(transactions)].entity_id = call[p].id
        /\ transactions[Len(transactions)].employee_id # expenses[call[p].id].employee_id
        /\ transactions[Len(transactions)].employee_id = pre[p].expenses[call[p].id].employee_id
        /\ transactions[Len(transactions)].payment_method = "card"

\* C24: when validation of the payload fails in create or update, the
\* operation returns its 400 response at once, without issuing any query: no
\* table is read or written, and update never reaches its existence check, so
\* an invalid payload for an id that no expense has yields 400, not 404.
C24_InvalidPayloadTouchesNothing ==
    \A p \in Procs :
        (call[p].op \in {"create", "update"} /\ Failing(Payload(p)) # {}) =>
            /\ Done(p)
            /\ StatusOf(resp[p]) = 400
            /\ ErrorOf(resp[p]) \in {CheckMessages[k] : k \in DOMAIN CheckMessages}
            /\ Untouched(p)

\* an update with a malformed employee id for an id that no expense has
C24_Witness ==
    \E p \in Procs :
        /\ Done(p)
        /\ call[p].op = "update"
        /\ call[p].id \notin DOMAIN expenses
        /\ Failing(call[p].updates) = {6}
        /\ StatusOf(resp[p]) = 400
        /\ calls[p] = <<>>

=============================================================================
